---- MODULE Spec2Model ----
(***************************************************************************)
(* Model of nanda_adapter/agent/megabrain.py: search_web and the           *)
(* megabrain_improvement pipeline (classifier LLM call, optional web       *)
(* search, synthesizer LLM call, outer fallback).                          *)
(*                                                                         *)
(* Text is a sequence of tokens.  The classifier's and the synthesizer's   *)
(* outputs are sequences of one-character tokens, so that str.strip() and  *)
(* str.upper() are computed character by character.  A prompt is the       *)
(* sequence of the template's literal pieces and of the substituted        *)
(* values, each value one token.                                           *)
(***************************************************************************)
EXTENDS Integers, Sequences, FiniteSets, TLC

VARIABLES
    pc,              \* position: "idle", "classify", "post", "synth", "done"
    caller,          \* entry point of the run: "none", "pipeline", "direct"
    serper_api_key,  \* os.getenv("SERPER_API_KEY"): "unset", "empty", "set"
    message_text,    \* argument of megabrain_improvement / query of search_web
    num_results,     \* argument num_results of search_web
    raw_output,      \* what the classifier chain returned, before strip/upper
    needs_search,    \* local needs_search (line 104)
    request,         \* body of the outbound POST (line 34-37), when one was sent
    response,        \* what the provider answered to the POST, when it did
    search_ret,      \* how the last search_web call ended
    search_results,  \* local search_results (lines 106, 109)
    prompt,          \* prompt handed to the synthesizer LLM call
    result,          \* value megabrain_improvement returned
    raised,          \* an exception escaped megabrain_improvement
    trace            \* history of the calls made, in order

vars == <<pc, caller, serper_api_key, message_text, num_results, raw_output,
          needs_search, request, response, search_ret, search_results, prompt, result,
          raised, trace>>

----------------------------------------------------------------------------
\* Bounds of the model.

\* longest classifier output drawn from RawAlphabet
MaxRawLen == 4
\* most entries in the provider's organic list
MaxOrganic == 3
\* largest num_results a direct caller of search_web passes
MaxNum == 2

\* num_results the pipeline passes (line 109); also the default (line 12)
PipelineNumResults == 5

----------------------------------------------------------------------------
\* Values.

SeqsUpTo(S, n) == UNION {[1..k -> S] : k \in 0..n}

Messages == {"What is the current price of gold?", "hello"}

\* Python values None and str
None == [t |-> "None", v |-> <<>>]
Str(s) == [t |-> "str", v |-> s]

\* characters str.strip() removes
Whitespace == {" ", "\n", "\t"}

RawAlphabet == {"Y", "e", "s", " "}

RawOutputs ==
    SeqsUpTo(RawAlphabet, MaxRawLen)
      \cup { <<"N", "O">>, <<"y", "e", "s">>, <<"Y", "E", "S">>,
             <<"\n", "Y", "E", "S", "\n">>, <<"\t", "y", "E", "s", " ">>,
             <<"Y", "E", "S", ".">>, <<"Y", "e", "s", ".">>, <<".", "Y", "E", "S">>,
             <<"Y", "E", "S", "!">>, <<"Y", "E", " ", "S">>, <<>>,
             <<"N", "O", " ", "Y", "E", "S">> }

SynthOutputs ==
    { <<>>, <<" ">>, <<"4", " ", "2">>, <<"\n", "4", " ", "2", " ">> }

\* JSON: a key that is not in an object, and the value null
Missing == "<missing>"
JNull == "<null>"

Fields == {"title", "snippet", "link"}

DictItem(t, s, l) == [kind |-> "dict", title |-> t, snippet |-> s, link |-> l]

\* entries of the provider's organic list: complete objects, an object
\* without title and link, an object whose title is null, and an entry that
\* is a JSON string, not an object
Items ==
    { DictItem("T1", "S1", "L1"),
      DictItem("T2", "S2", "L2"),
      DictItem(Missing, "S3", Missing),
      DictItem(JNull, "S1", "L1"),
      [kind |-> "str", title |-> Missing, snippet |-> Missing, link |-> Missing] }

\* what requests.post / raise_for_status / response.json() produce, other
\* than a JSON object holding an organic list
OtherResponseKinds ==
    { "transport_error",      \* requests.post raises
      "http_error",           \* non-2xx: raise_for_status raises
      "bad_json",             \* response.json() raises
      "data_not_dict",        \* the body is a JSON list, string, number or null
      "no_organic",           \* a JSON object without the key organic
      "organic_null",         \* organic: null
      "organic_number",       \* organic: 7
      "organic_string",       \* organic: "ab"
      "organic_empty_string", \* organic: ""
      "organic_dict",         \* organic: {"a": 1}
      "organic_empty_dict" }  \* organic: {}

Responses ==
    {[kind |-> k, organic |-> <<>>] : k \in OtherResponseKinds}
      \cup {[kind |-> "organic_list", organic |-> o] : o \in SeqsUpTo(Items, MaxOrganic)}

----------------------------------------------------------------------------
\* str.strip() and str.upper() (lines 104, 168)

RECURSIVE LStrip(_)
LStrip(s) ==
    IF s # <<>> /\ Head(s) \in Whitespace THEN LStrip(Tail(s)) ELSE s

RECURSIVE RStrip(_)
RStrip(s) ==
    IF s # <<>> /\ s[Len(s)] \in Whitespace
    THEN RStrip(SubSeq(s, 1, Len(s) - 1))
    ELSE s

StripNothing(s) == s
Strip(s) == RStrip(LStrip(s))

UpperChar(c) ==
    CASE c = "y" -> "Y"
      [] c = "e" -> "E"
      [] c = "s" -> "S"
      [] c = "n" -> "N"
      [] c = "o" -> "O"
      [] OTHER -> c

Upper(s) == [i \in 1..Len(s) |-> UpperChar(s[i])]

YES == <<"Y", "E", "S">>

\* line 107: needs_search == "YES"
IsSearch(ns) == ns = YES

----------------------------------------------------------------------------
\* search_web (lines 12-57)

\* line 24: not serper_api_key (None and "" are both falsy)
KeyMissingNever(key) == FALSE
KeyMissing(key) == key \in {"unset", "empty"}

\* lines 34-37
Payload(query, n) == [q |-> query, num |-> n]

\* item.get(k, "") (lines 49-51)
DictGet(item, k) == IF item[k] = Missing THEN "" ELSE item[k]

Raise == [exc |-> TRUE, val |-> <<>>]
Ok(v) == [exc |-> FALSE, val |-> v]

\* the loop of lines 47-52: item.get raises AttributeError on an entry that
\* is not an object, which leaves the loop and the try block
RECURSIVE Extract(_, _)
Extract(items, results) ==
    IF items = <<>> THEN Ok(results)
    ELSE IF Head(items).kind # "dict" THEN Raise
    ELSE Extract(Tail(items),
                 Append(results,
                        [title |-> DictGet(Head(items), "title"),
                         snippet |-> DictGet(Head(items), "snippet"),
                         link |-> DictGet(Head(items), "link")]))

\* the try block, lines 40-54, from the provider's response on
TryBody(resp) ==
    CASE resp.kind \in {"transport_error", "http_error", "bad_json"} -> Raise
      [] resp.kind = "data_not_dict" -> Raise         \* data.get: AttributeError
      [] resp.kind = "no_organic" -> Ok(<<>>)         \* the default []
      [] resp.kind \in {"organic_null", "organic_number"} -> Raise  \* TypeError
      [] resp.kind \in {"organic_string", "organic_dict"} -> Raise
                              \* iterates characters / keys: str has no get
      [] resp.kind \in {"organic_empty_string", "organic_empty_dict"} -> Ok(<<>>)
      [] resp.kind = "organic_list" -> Extract(resp.organic, <<>>)

\* lines 55-57: except Exception: return []
SearchExceptMissing(body) == [called |-> TRUE, raised |-> body.exc, value |-> body.val]
SearchExcept(body) ==
    [called |-> TRUE, raised |-> FALSE, value |-> IF body.exc THEN <<>> ELSE body.val]

\* lines 39-57
SearchWebAfterPost(resp) == SearchExcept(TryBody(resp))

\* lines 25-26
SearchDisabled == [called |-> TRUE, raised |-> FALSE, value |-> <<>>]

NotCalled == [called |-> FALSE, raised |-> FALSE, value |-> <<>>]

----------------------------------------------------------------------------
\* Prompts and the fallback (lines 113-173)

\* str() of a value inside an f-string
PyStr(v) == IF v = JNull THEN "None" ELSE v

TitleLabel == "Title: "
SnippetLabel == "\nSnippet: "
LinkLabel == "\nLink: "
BlankLine == "\n\n"

\* line 116
FormatResultSwapped(r) ==
    <<TitleLabel, PyStr(r.title), SnippetLabel, PyStr(r.link),
      LinkLabel, PyStr(r.snippet)>>
FormatResult(r) ==
    <<TitleLabel, PyStr(r.title), SnippetLabel, PyStr(r.snippet),
      LinkLabel, PyStr(r.link)>>

\* lines 115-118: "\n\n".join([... for result in search_results])
RECURSIVE JoinResults(_)
JoinResults(rs) ==
    IF rs = <<>> THEN <<>>
    ELSE IF Len(rs) = 1 THEN FormatResult(rs[1])
    ELSE FormatResult(Head(rs)) \o <<BlankLine>> \o JoinResults(Tail(rs))

WithResultsHead ==
    "You are a Megabrain AI assistant with access to current web information. [...] User's Question: "
WithResultsMid == "\n\nWeb Search Results:\n"
WithResultsTail == "\n\nComprehensive Answer:"

NoResultsHead ==
    "You are a Megabrain AI assistant. Answer the user's question or respond to their message [...] User's Message: "
NoResultsTail == "\n\nResponse:"

\* lines 120-145
WithResultsPrompt(message, results) ==
    <<WithResultsHead, message, WithResultsMid>> \o JoinResults(results)
        \o <<WithResultsTail>>

\* lines 148-166
NoResultsPrompt(message) == <<NoResultsHead, message, NoResultsTail>>

\* lines 113-166: if search_results: ... else: ...
ResponsePromptAlwaysWith(message, results) == WithResultsPrompt(message, results)
ResponsePrompt(message, results) ==
    IF results # <<>> THEN WithResultsPrompt(message, results)
    ELSE NoResultsPrompt(message)

FallbackHead ==
    "I apologize, but I encountered an error while processing your message: '"
FallbackTail ==
    "'. Please try rephrasing your question or let me know how I can help you in a different way."

\* line 173
FallbackNoEcho(message) == <<FallbackHead, FallbackTail>>
Fallback(message) == <<FallbackHead, message, FallbackTail>>

\* lines 170-173: except Exception: return the fallback
OuterExceptMissing(message) == [raised |-> TRUE, result |-> None]
OuterExcept(message) == [raised |-> FALSE, result |-> Str(Fallback(message))]

----------------------------------------------------------------------------
\* The state machine.

NoRequest == [q |-> "", num |-> 0]
NoResponse == [kind |-> "none", organic |-> <<>>]

Init ==
    /\ pc = "idle"
    /\ caller = "none"
    /\ serper_api_key \in {"unset", "empty", "set"}
    /\ message_text = ""
    /\ num_results = 0
    /\ raw_output = <<>>
    /\ needs_search = <<>>
    /\ request = NoRequest
    /\ response = NoResponse
    /\ search_ret = NotCalled
    /\ search_results = <<>>
    /\ prompt = <<>>
    /\ result = None
    /\ raised = FALSE
    /\ trace = <<>>

\* lines 170-173: an exception inside the try block ends the invocation
Caught(tr) ==
    /\ result' = OuterExcept(message_text).result
    /\ raised' = OuterExcept(message_text).raised
    /\ pc' = "done"
    /\ trace' = tr \o <<"except">>

\* lines 113-166, up to the synthesizer LLM call
StartSynth(results, tr) ==
    /\ search_results' = results
    /\ prompt' = ResponsePrompt(message_text, results)
    /\ pc' = "synth"
    /\ trace' = tr \o <<"synth_call">>

\* lines 68-104, up to the classifier LLM call
Invoke(m) ==
    /\ pc = "idle"
    /\ caller' = "pipeline"
    /\ message_text' = m
    /\ pc' = "classify"
    /\ trace' = Append(trace, "classifier_call")
    /\ UNCHANGED <<serper_api_key, num_results, raw_output, needs_search, request,
                   response, search_ret, search_results, prompt, result, raised>>

\* line 104 raises: the classifier LLM call failed
ClassifierFailsAndGoesOn ==
    /\ pc = "classify"
    /\ StartSynth(<<>>, Append(trace, "classifier_fail"))
    /\ UNCHANGED <<caller, serper_api_key, message_text, num_results, raw_output,
                   needs_search, request, response, search_ret, result, raised>>
ClassifierFails ==
    /\ pc = "classify"
    /\ Caught(Append(trace, "classifier_fail"))
    /\ UNCHANGED <<caller, serper_api_key, message_text, num_results, raw_output,
                   needs_search, request, response, search_ret, search_results,
                   prompt>>

\* lines 104-110: the classifier returned raw; search_web is entered when
\* the stripped, upper-cased output is "YES", and runs up to its POST
ClassifierReturns(raw) ==
    /\ pc = "classify"
    /\ raw_output' = raw
    /\ needs_search' = Upper(Strip(raw))
    /\ IF IsSearch(needs_search')
       THEN /\ num_results' = PipelineNumResults
            /\ IF KeyMissing(serper_api_key)
               THEN /\ search_ret' = SearchDisabled
                    /\ StartSynth(SearchDisabled.value,
                                  trace \o <<"classifier_ret", "search_web", "search_ret">>)
                    /\ UNCHANGED request
               ELSE /\ request' = Payload(message_text, PipelineNumResults)
                    /\ pc' = "post"
                    /\ trace' = trace \o <<"classifier_ret", "search_web", "http_post">>
                    /\ search_results' = <<>>
                    /\ UNCHANGED <<search_ret, prompt>>
       ELSE /\ StartSynth(<<>>, Append(trace, "classifier_ret"))
            /\ UNCHANGED <<num_results, request, search_ret>>
    /\ UNCHANGED <<caller, serper_api_key, message_text, response, result, raised>>

\* search_web called by itself (lines 12-38), up to its POST
DirectSearch(query, n) ==
    /\ pc = "idle"
    /\ caller' = "direct"
    /\ message_text' = query
    /\ num_results' = n
    /\ IF KeyMissing(serper_api_key)
       THEN /\ search_ret' = SearchDisabled
            /\ pc' = "done"
            /\ trace' = trace \o <<"search_web", "search_ret">>
            /\ UNCHANGED request
       ELSE /\ request' = Payload(query, n)
            /\ pc' = "post"
            /\ trace' = trace \o <<"search_web", "http_post">>
            /\ UNCHANGED search_ret
    /\ UNCHANGED <<serper_api_key, raw_output, needs_search, response,
                   search_results, prompt, result, raised>>

\* lines 40-57: the POST ended with resp; search_web returns, and the
\* pipeline goes on to the synthesizer LLM call (lines 109-166)
HttpResponds(resp) ==
    /\ pc = "post"
    /\ response' = resp
    /\ search_ret' = SearchWebAfterPost(resp)
    /\ IF caller = "direct"
       THEN /\ pc' = "done"
            /\ trace' = trace \o <<"http_resp", "search_ret">>
            /\ UNCHANGED <<search_results, prompt, result, raised>>
       ELSE IF search_ret'.raised
       THEN /\ Caught(trace \o <<"http_resp", "search_raise">>)
            /\ UNCHANGED <<search_results, prompt>>
       ELSE /\ StartSynth(search_ret'.value, trace \o <<"http_resp", "search_ret">>)
            /\ UNCHANGED <<result, raised>>
    /\ UNCHANGED <<caller, serper_api_key, message_text, num_results, raw_output,
                   needs_search, request>>

\* lines 142/166 and 168: the synthesizer returned out
SynthReturns(out) ==
    /\ pc = "synth"
    /\ result' = Str(Strip(out))
    /\ pc' = "done"
    /\ trace' = trace \o <<"synth_ret", "return">>
    /\ UNCHANGED <<caller, serper_api_key, message_text, num_results, raw_output,
                   needs_search, request, response, search_ret, search_results,
                   prompt, raised>>

\* line 142/166 raises: the synthesizer LLM call failed
SynthFailsAndRetries ==
    /\ pc = "synth"
    /\ trace' = trace \o <<"synth_fail", "synth_call">>
    /\ UNCHANGED <<pc, caller, serper_api_key, message_text, num_results,
                   raw_output, needs_search, request, response, search_ret,
                   search_results, prompt, result, raised>>
SynthFails ==
    /\ pc = "synth"
    /\ Caught(Append(trace, "synth_fail"))
    /\ UNCHANGED <<caller, serper_api_key, message_text, num_results, raw_output,
                   needs_search, request, response, search_ret, search_results,
                   prompt>>

Next ==
    \/ \E m \in Messages : Invoke(m)
    \/ ClassifierFails
    \/ \E raw \in RawOutputs : ClassifierReturns(raw)
    \/ \E q \in Messages, n \in 1..MaxNum : DirectSearch(q, n)
    \/ \E resp \in Responses : HttpResponds(resp)
    \/ \E out \in SynthOutputs : SynthReturns(out)
    \/ SynthFails

Spec == Init /\ [][Next]_vars

----------------------------------------------------------------------------
\* Properties.

Has(e) == \E i \in 1..Len(trace) : trace[i] = e
Count(e) == Cardinality({i \in 1..Len(trace) : trace[i] = e})
Before(e, i) == \E j \in 1..(i - 1) : trace[j] = e

InPipeline == caller = "pipeline"

\* C1: every megabrain_improvement invocation, whatever the outcomes of the
\* classifier call, the search call and the synthesizer call, ends by
\* returning a string and raises nothing to its caller; until it has
\* returned, exactly one of the three calls is outstanding and the run is
\* a bounded chain of calls (no loop).
C1_ReturnsStringNeverRaises ==
    InPipeline =>
        /\ ~raised
        /\ pc = "done" => result.t = "str"
        /\ pc # "done" => (pc \in {"classify", "post", "synth"} /\ result = None)
        /\ Len(trace) <= 9

\* a run where the search call and then the synthesizer call both failed
C1_Witness ==
    /\ InPipeline /\ pc = "done"
    /\ response.kind = "transport_error"
    /\ Has("synth_fail")
    /\ result.t = "str" /\ ~raised

\* the classifier's raw output is "YES" in any letter case, with only
\* whitespace before and after it
MatchesYes(raw) ==
    \E i \in 1..Len(raw) :
        /\ i + 2 <= Len(raw)
        /\ raw[i] \in {"y", "Y"}
        /\ raw[i + 1] \in {"e", "E"}
        /\ raw[i + 2] \in {"s", "S"}
        /\ \A j \in 1..(i - 1) : raw[j] \in Whitespace
        /\ \A j \in (i + 3)..Len(raw) : raw[j] \in Whitespace

\* C2: within one invocation search_web is called if and only if the
\* classifier's raw output, trimmed and upper-cased, is exactly "YES"; for
\* every other output, and before the classifier has returned, there is no
\* search call.
C2_SearchIffYes ==
    InPipeline =>
        /\ Has("classifier_ret") => (Has("search_web") <=> MatchesYes(raw_output))
        /\ ~Has("classifier_ret") => ~Has("search_web")

\* the classifier answered "yes" in lower case between whitespace
C2_Witness ==
    /\ InPipeline
    /\ raw_output = <<"\t", "y", "E", "s", " ">>
    /\ Has("search_web")

\* the classifier answered "YES" followed by punctuation: no search
C2_WitnessNoSearch ==
    /\ InPipeline /\ pc = "done"
    /\ raw_output = <<"Y", "e", "s", ".">>
    /\ ~Has("search_web")

\* C3: with SERPER_API_KEY absent (unset, or set to the empty string),
\* search_web returns the empty list for every query and every
\* num_results and sends no request.
C3_NoKeyNoSearch ==
    (Has("search_web") /\ serper_api_key \in {"unset", "empty"}) =>
        /\ search_ret = [called |-> TRUE, raised |-> FALSE, value |-> <<>>]
        /\ ~Has("http_post")
        /\ request = NoRequest

\* search_web("hello", 2) called with the key unset
C3_Witness ==
    /\ caller = "direct" /\ pc = "done"
    /\ serper_api_key = "unset"
    /\ message_text = "hello" /\ num_results = 2
    /\ search_ret.called

\* the outbound call failed: transport error, non-2xx status, a body that
\* is not JSON or not a JSON object, an organic value that is not a list,
\* or an organic list with an entry that is not an object
FailedResponse(resp) ==
    \/ resp.kind \in {"transport_error", "http_error", "bad_json", "data_not_dict",
                      "organic_null", "organic_number", "organic_string",
                      "organic_empty_string", "organic_dict", "organic_empty_dict"}
    \/ /\ resp.kind = "organic_list"
       /\ \E i \in 1..Len(resp.organic) : resp.organic[i].kind # "dict"

\* C4: search_web never raises past its boundary, and on every failure of
\* the outbound call (transport error, non-2xx status, malformed payload,
\* including an organic value that is not a list and an entry that is not
\* an object) it returns the empty list.  An entry that is an object with
\* a null field raises nothing in lines 47-52 and is not among the
\* failures: search_web returns it with the field as it came.
C4_SearchNeverRaises ==
    /\ ~search_ret.raised
    /\ (Has("http_resp") /\ FailedResponse(response)) =>
           (search_ret.called /\ search_ret.value = <<>>)

\* the organic list held a good entry followed by one that is not an object
C4_Witness ==
    /\ caller = "direct" /\ pc = "done"
    /\ response.kind = "organic_list"
    /\ Len(response.organic) = 2
    /\ response.organic[1].kind = "dict"
    /\ response.organic[2].kind = "str"
    /\ search_ret.called /\ search_ret.value = <<>>

\* C5: the list search_web returns is never longer than num_results,
\* whatever number of organic entries the provider's response holds.
C5_AtMostNumResults ==
    search_ret.called => Len(search_ret.value) <= num_results

\* C6: when the search returned one or more results, the synthesizer's
\* prompt is the with-results template around, for the k-th returned
\* result, the block "Title: <title>\nSnippet: <snippet>\nLink: <link>",
\* the blocks in the order returned, separated by blank lines, none left
\* out and none repeated.
C6_PromptHoldsEveryResult ==
    (InPipeline /\ Has("synth_call") /\ search_ret.called /\ search_ret.value # <<>>) =>
        LET rs == search_ret.value
            n == Len(rs)
        IN  /\ Len(prompt) = 3 + 7 * n
            /\ prompt[1] = WithResultsHead
            /\ prompt[2] = message_text
            /\ prompt[3] = WithResultsMid
            /\ prompt[3 + 7 * n] = WithResultsTail
            /\ \A k \in 1..n :
                   LET b == 3 + 7 * (k - 1)
                   IN  /\ prompt[b + 1] = "Title: "
                       /\ prompt[b + 2] = PyStr(rs[k].title)
                       /\ prompt[b + 3] = "\nSnippet: "
                       /\ prompt[b + 4] = PyStr(rs[k].snippet)
                       /\ prompt[b + 5] = "\nLink: "
                       /\ prompt[b + 6] = PyStr(rs[k].link)
                       /\ k < n => prompt[b + 7] = "\n\n"

\* the provider returned three results, the first two different
C6_Witness ==
    /\ InPipeline /\ pc = "synth"
    /\ Len(search_ret.value) = 3
    /\ search_ret.value[1].title = "T2"
    /\ search_ret.value[2].title = "T1"
    /\ search_ret.value[3].title = ""

\* C7: whenever the result set reaching the synthesis step is empty (no
\* search decided, key absent, search failed, or no organic entry), the
\* synthesizer is called once with the no-results template, whose prompt
\* holds no Title/Snippet/Link label, and the invocation ends in the
\* fallback only if the synthesizer call itself failed.
C7_EmptyResultsNoResultsTemplate ==
    (InPipeline /\ Has("classifier_ret") /\ pc \in {"synth", "done"}
       /\ search_results = <<>>) =>
        /\ Count("synth_call") = 1
        /\ prompt = <<NoResultsHead, message_text, NoResultsTail>>
        /\ \A i \in 1..Len(prompt) : prompt[i] \notin {"Title: ", "\nSnippet: ", "\nLink: "}
        /\ Has("except") => Has("synth_fail")
        /\ (pc = "done" /\ ~Has("synth_fail")) => Has("return")

\* the decision was SEARCH, the POST failed with a transport error, and the
\* synthesizer answered
C7_Witness ==
    /\ InPipeline /\ pc = "done"
    /\ needs_search = YES
    /\ response.kind = "transport_error"
    /\ search_results = <<>>
    /\ Has("synth_ret")
    /\ result = Str(<<"4", " ", "2">>)

\* C8: if the classifier call or the synthesizer call failed, the
\* invocation has returned the apology text around the literal message,
\* whatever the decision and the search results were.
C8_FallbackEchoesMessage ==
    (InPipeline /\ (Has("classifier_fail") \/ Has("synth_fail"))) =>
        /\ pc = "done"
        /\ ~raised
        /\ result.t = "str"
        /\ result.v =
             <<"I apologize, but I encountered an error while processing your message: '",
               message_text,
               "'. Please try rephrasing your question or let me know how I can help you in a different way.">>

\* the synthesizer failed after a search that had returned two results
C8_Witness ==
    /\ InPipeline /\ pc = "done"
    /\ Has("synth_fail")
    /\ Len(search_results) = 2
    /\ message_text = "hello"

\* C9: the search call starts only after the classifier returned the
\* decision SEARCH; the synthesizer call starts only after the classifier
\* returned and the search, when one was decided, has returned; after a
\* failed classifier call there is neither a search nor a synthesizer call.
C9_StrictOrder ==
    InPipeline =>
        /\ \A i \in 1..Len(trace) :
               trace[i] \in {"search_web", "http_post"} =>
                   (Before("classifier_ret", i) /\ needs_search = YES)
        /\ \A i \in 1..Len(trace) :
               trace[i] = "synth_call" =>
                   /\ Before("classifier_ret", i)
                   /\ needs_search = YES => Before("search_ret", i)
                   /\ Has("http_post") => Before("http_resp", i)
        /\ pc = "post" => ~Has("synth_call")
        /\ Has("classifier_fail") =>
               (~Has("search_web") /\ ~Has("http_post") /\ ~Has("synth_call"))

\* classifier, then search with a POST, then synthesizer, all returned
C9_Witness ==
    /\ InPipeline /\ pc = "done"
    /\ trace = <<"classifier_call", "classifier_ret", "search_web", "http_post",
                 "http_resp", "search_ret", "synth_call", "synth_ret", "return">>

\* C10: an invocation makes exactly one classifier call, at most one
\* synthesizer call and at most one search call (one POST at most); a
\* failed call is not made again.
C10_NoRetry ==
    InPipeline =>
        /\ Count("classifier_call") = 1
        /\ Count("synth_call") <= 1
        /\ Count("search_web") <= 1
        /\ Count("http_post") <= 1
        /\ Count("classifier_call") + Count("synth_call") \in {1, 2}

\* the POST failed and then the synthesizer call failed: one of each
C10_Witness ==
    /\ InPipeline /\ pc = "done"
    /\ response.kind = "http_error"
    /\ Has("synth_fail")
    /\ Count("http_post") = 1 /\ Count("synth_call") = 1

====
